---- MODULE Spec2Model ----
(***************************************************************************)
(* Event flow graph engine of python_pubsub_scanner:                       *)
(*   EventFlowAnalyzer (analyze_event_flow.py): the four mappings built by *)
(*   _analyze_file and the set queries over them;                          *)
(*   AnomalyDetector (anomaly_detector.py): orphaned events, isolated      *)
(*   agents and the cycle-finding depth-first search.                      *)
(* A Python defaultdict(list) is a function whose DOMAIN is its key set;   *)
(* a Python list is a sequence; a Python set is a set whose iteration      *)
(* order is chosen by the actions.                                         *)
(***************************************************************************)
EXTENDS Integers, Sequences, FiniteSets, TLC

(* ------------------------------ bounds -------------------------------- *)
\* Spec: longest published / subscribed list of one agent file.
MaxPub == 2
MaxSub == 2
\* Spec: most publish/subscribe facts the graph holds.
MaxFacts == 4
\* Spec: most class declarations the events directory holds.
MaxDecls == 1
\* SpecCycles: number of agent files and of event classes of the code base.
SearchAgents == 4
SearchEvents == 4
\* SpecReport: number of agent files of the code base.
ReportAgents == 3
\* SpecCycles, SpecReport: most publish calls and most subscribe calls of
\* one agent file.
FileCalls == 1

\* SpecTwice: number of agent files and of event classes of the code base.
TwiceAgents == 3
TwiceEvents == 2
\* SpecReaders: number of agent files and of event classes of the code base.
ReaderAgents == 3
ReaderEvents == 1
\* SpecScanner: number of scan_once calls, of agent files and of event
\* classes of the code base.
MaxScans == 3
ScanAgents == 2
ScanEvents == 1
\* SpecNames: longest published / subscribed list of one agent file, most
\* facts of the graph, most class declarations of the events directory.
NamePubs == 4
NameSubs == 1
NameFacts == 4
NameDecls == 2

\* Spec: agent file stems and event class names of the scanned code base.
AgentNames == {"A", "B"}
EventClasses == {"X", "Y", "Z"}
\* Spec: names of the namespace directories below events_dir and the event
\* classes their files declare.
NamespaceDirs == {"market"}
DeclaredClasses == {"X"}
\* SpecNames: agent names given to _analyze_file, event class names of the
\* agent files, namespace directories and the classes they declare.
GivenNames == {"", "A"}
NamedClasses == {"X", "Y"}
NameDirs == {"market", "risk"}
\* SpecCycles, SpecReport: agent file stems in the order analyze() meets the
\* files, and event class names in the order the files first name them.
FileStems == <<"A", "B", "C", "D", "E">>
ClassNames == <<"X", "Y", "Z", "W", "V">>

VARIABLES
    event_class_to_namespace,  \* class name -> namespace directory
    subscriptions,             \* agent -> list of events
    publications,              \* agent -> list of events
    event_to_subscribers,      \* event -> list of agents
    event_to_publishers,       \* event -> list of agents
    op,                        \* the operation called last
    file,                      \* the agent file the last _analyze_file call read
    status,                    \* "running" | "returned" | "raised"
    agent_graph,               \* detect_cycles: agent -> set of agents
    all_agents,                \* detect_cycles: agents the root loop has left
    visited,                   \* detect_cycles: set of agents
    rec_stack,                 \* detect_cycles: set of agents
    path,                      \* detect_cycles: list of agents
    frames,                    \* detect_cycles: the active dfs() calls
    cycles,                    \* detect_cycles: list of findings
    orphaned,                  \* findings returned by detect_orphaned_events
    isolated,                  \* findings returned by detect_isolated_agents
    counts,                    \* dictionary returned by get_anomaly_summary
    events_dir,                \* class declarations below events_dir, in scan order
    hash_order,                \* names in the order this process's sets iterate them
    previous,                  \* history: outcome of the last detect_all on this graph
    result,                    \* value returned by the last graph query
    parked,                    \* the call of the reader that is not running
    scanner                    \* the EventFlowScanner and its scan_once call

graph == <<subscriptions, publications, event_to_subscribers, event_to_publishers>>
search == <<agent_graph, all_agents, visited, rec_stack, path, frames>>
\* What is fixed once the analyzer is constructed in its process.
env == <<event_class_to_namespace, events_dir, hash_order>>
vars == <<event_class_to_namespace, subscriptions, publications,
          event_to_subscribers, event_to_publishers, op, file, status, agent_graph,
          all_agents, visited, rec_stack, path, frames, cycles, orphaned,
          isolated, counts, events_dir, hash_order, previous, result, parked,
          scanner>>

(* ------------------------- Python containers --------------------------- *)
\* The empty dict.
EmptyDict == [k \in {} |-> <<>>]

\* Mutant of DictAppend: the value is put at the front of the list.
DictPrepend(d, k, v) ==
    [x \in DOMAIN d \cup {k} |->
        IF x = k THEN (IF k \in DOMAIN d THEN <<v>> \o d[k] ELSE <<v>>)
        ELSE d[x]]

\* d[k].append(v) on a defaultdict(list): a missing key is created.
DictAppend(d, k, v) ==
    [x \in DOMAIN d \cup {k} |->
        IF x = k THEN (IF k \in DOMAIN d THEN Append(d[k], v) ELSE <<v>>)
        ELSE d[x]]

\* d.get(k, []): a missing key is not created.
DictGet(d, k) == IF k \in DOMAIN d THEN d[k] ELSE <<>>

\* The elements of a list.
Range(s) == {s[i] : i \in 1..Len(s)}

\* The orders in which a set can be iterated.
Orders(S) ==
    {s \in [1..Cardinality(S) -> S] : \A i, j \in 1..Cardinality(S) : s[i] = s[j] => i = j}

\* Position of an item's name in the order this process iterates its sets.
Rank(item) == CHOOSE i \in 1..Len(hash_order) : hash_order[i] = item.name

\* The orders in which this process can iterate the set S: any order while
\* the order of the process is left open (hash_order is empty), otherwise
\* the one order that hash_order fixes.
IterationOrders(S) ==
    IF hash_order = <<>> THEN Orders(S)
    ELSE {s \in Orders(S) : \A i, j \in 1..Cardinality(S) : i < j => Rank(s[i]) < Rank(s[j])}

\* The members of S that an iteration over S can meet first.
NextOf(S) ==
    IF hash_order = <<>> THEN S
    ELSE {x \in S : \A y \in S : Rank(x) <= Rank(y)}

\* All lists over S of length at most n.
SeqsUpTo(S, n) == UNION {[1..k -> S] : k \in 0..n}

\* What an agent file holds for _analyze_file: the file stem and the class
\* names of its publish and subscribe calls, in source order.
AgentFile(agent_name, pubs, subs) == [agent_name |-> agent_name, pubs |-> pubs, subs |-> subs]

\* No agent file is being read.
NoFile == AgentFile("", <<>>, <<>>)

\* No query has returned a value.
NoResult == [chains |-> <<>>, items |-> {}, namespaces |-> {}]

\* What a completed detect_all or get_anomaly_summary call gave its caller:
\* the three lists (and the counts), or the exception.
Outcome ==
    IF status = "raised"
    THEN [op |-> op, status |-> status, orphaned |-> <<>>, cycles |-> <<>>,
          isolated |-> <<>>, counts |-> <<>>]
    ELSE [op |-> op, status |-> status, orphaned |-> orphaned, cycles |-> cycles,
          isolated |-> isolated, counts |-> counts]

\* History kept while the graph is unchanged, in the runs that fix the
\* iteration order of the process: the outcome of the last completed
\* detect_all or get_anomaly_summary call.
Remember ==
    IF hash_order # <<>> /\ op \in {"detect_all", "get_anomaly_summary"} /\ status # "running"
    THEN <<Outcome>>
    ELSE previous

\* An ingestion changes the graph: the history starts again.
Forget == <<>>

\* The locals of a caller that has called nothing yet.
IdleReader ==
    [op |-> "__init__", status |-> "returned", agent_graph |-> EmptyDict,
     all_agents |-> {}, visited |-> {}, rec_stack |-> {}, path |-> <<>>,
     frames |-> <<>>, cycles |-> <<>>, orphaned |-> <<>>, isolated |-> <<>>,
     counts |-> <<>>, result |-> NoResult]

\* The call of the running reader: its position, the locals of its
\* detect_cycles call and the values its call returns.
Locals ==
    [op |-> op, status |-> status, agent_graph |-> agent_graph,
     all_agents |-> all_agents, visited |-> visited, rec_stack |-> rec_stack,
     path |-> path, frames |-> frames, cycles |-> cycles, orphaned |-> orphaned,
     isolated |-> isolated, counts |-> counts, result |-> result]

\* No EventFlowScanner is constructed.
NoScanner ==
    [postman_dir |-> FALSE, postman_collection_generated |-> FALSE,
     pc |-> "none", calls |-> 0, results |-> <<>>, posted |-> <<>>, log |-> <<>>]

(* ---------------------------- NamespacedItem --------------------------- *)
NamespacedItem(name, namespace) == [name |-> name, namespace |-> namespace]

(* --------------------------- namespace index --------------------------- *)
RECURSIVE ScanEventsDirectoryKeepFirst(_, _)
\* Mutant of ScanEventsDirectory: a class already in the index keeps its
\* namespace.
ScanEventsDirectoryKeepFirst(index, decls) ==
    IF decls = <<>> THEN index
    ELSE ScanEventsDirectoryKeepFirst(
            [c \in DOMAIN index \cup {Head(decls)[2]} |->
                IF c \in DOMAIN index THEN index[c] ELSE Head(decls)[1]],
            Tail(decls))

RECURSIVE ScanEventsDirectory(_, _)
\* _scan_events_directory: decls lists the (namespace directory, class name)
\* pairs in the order the scan meets them; a later one replaces an earlier one.
ScanEventsDirectory(index, decls) ==
    IF decls = <<>> THEN index
    ELSE ScanEventsDirectory(
            [c \in DOMAIN index \cup {Head(decls)[2]} |->
                IF c = Head(decls)[2] THEN Head(decls)[1] ELSE index[c]],
            Tail(decls))

\* event_class_to_namespace.get(event_class_name, 'default')
EventNamespace(index, event_class_name) ==
    IF event_class_name \in DOMAIN index THEN index[event_class_name] ELSE "default"

\* published_events: the (class name, namespace) pairs of the first pass.
PublishedEvents(index, pubs) ==
    [i \in 1..Len(pubs) |-> <<pubs[i], EventNamespace(index, pubs[i])>>]

\* Counter(ns for _, ns in published_events if ns != 'default')[ns]
NamespaceCount(published_events, ns) ==
    Cardinality({i \in 1..Len(published_events) : published_events[i][2] = ns})

\* Position at which Counter first inserted ns.
FirstSeen(published_events, ns) ==
    CHOOSE i \in 1..Len(published_events) :
        /\ published_events[i][2] = ns
        /\ \A j \in 1..(i - 1) : published_events[j][2] # ns

\* Mutant of AgentNamespace: the counter also counts 'default'.
AgentNamespaceCountingDefault(published_events) ==
    LET keys == {published_events[i][2] : i \in 1..Len(published_events)}
    IN  IF keys = {} THEN "default"
        ELSE CHOOSE ns \in keys :
                \A other \in keys \ {ns} :
                    \/ NamespaceCount(published_events, ns) > NamespaceCount(published_events, other)
                    \/ /\ NamespaceCount(published_events, ns) = NamespaceCount(published_events, other)
                       /\ FirstSeen(published_events, ns) < FirstSeen(published_events, other)

\* Mutant of AgentNamespace: among equal counts the key inserted last wins.
AgentNamespaceLastTie(published_events) ==
    LET keys == {published_events[i][2] : i \in 1..Len(published_events)} \ {"default"}
    IN  IF keys = {} THEN "default"
        ELSE CHOOSE ns \in keys :
                \A other \in keys \ {ns} :
                    \/ NamespaceCount(published_events, ns) > NamespaceCount(published_events, other)
                    \/ /\ NamespaceCount(published_events, ns) = NamespaceCount(published_events, other)
                       /\ FirstSeen(published_events, ns) > FirstSeen(published_events, other)

\* namespace_counts.most_common(1)[0][0], or 'default' when the counter is
\* empty: the largest count, the earliest inserted key among equal counts.
AgentNamespace(published_events) ==
    LET keys == {published_events[i][2] : i \in 1..Len(published_events)} \ {"default"}
    IN  IF keys = {} THEN "default"
        ELSE CHOOSE ns \in keys :
                \A other \in keys \ {ns} :
                    \/ NamespaceCount(published_events, ns) > NamespaceCount(published_events, other)
                    \/ /\ NamespaceCount(published_events, ns) = NamespaceCount(published_events, other)
                       /\ FirstSeen(published_events, ns) < FirstSeen(published_events, other)

(* ------------------------------ ingestion ------------------------------ *)
\* No detect_cycles call is active: its locals do not exist.
NoSearch ==
    /\ agent_graph' = EmptyDict
    /\ all_agents' = {}
    /\ visited' = {}
    /\ rec_stack' = {}
    /\ path' = <<>>
    /\ frames' = <<>>

RECURSIVE AppendAllOncePerEvent(_, _, _, _, _)
\* Mutant of AppendAll: the agent is appended to the event's list only when
\* the list does not hold it yet.
AppendAllOncePerEvent(forward, inverse, agent_item, index, names) ==
    IF names = <<>> THEN <<forward, inverse>>
    ELSE LET event_item == NamespacedItem(Head(names), EventNamespace(index, Head(names)))
         IN  AppendAllOncePerEvent(DictAppend(forward, agent_item, event_item),
                       IF agent_item \in Range(DictGet(inverse, event_item))
                       THEN inverse
                       ELSE DictAppend(inverse, event_item, agent_item),
                       agent_item, index, Tail(names))

RECURSIVE AppendAll(_, _, _, _, _)
\* One of the two loops of _analyze_file: every event is appended to the
\* agent's list and the agent to the event's list.
AppendAll(forward, inverse, agent_item, index, names) ==
    IF names = <<>> THEN <<forward, inverse>>
    ELSE LET event_item == NamespacedItem(Head(names), EventNamespace(index, Head(names)))
         IN  AppendAll(DictAppend(forward, agent_item, event_item),
                       DictAppend(inverse, event_item, agent_item),
                       agent_item, index, Tail(names))

\* The agent identity _analyze_file builds.
AgentItem(index, agent_name, pubs) ==
    NamespacedItem(agent_name, AgentNamespace(PublishedEvents(index, pubs)))

\* Total number of facts in the forward mappings.
RECURSIVE TotalLen(_, _)
TotalLen(d, keys) ==
    IF keys = {} THEN 0
    ELSE LET k == CHOOSE x \in keys : TRUE
         IN  Len(d[k]) + TotalLen(d, keys \ {k})

Facts == TotalLen(subscriptions, DOMAIN subscriptions)
            + TotalLen(publications, DOMAIN publications)

\* Mutant of _analyze_file: the subscribe loop appends to subscriptions only.
analyze_file_forward_only(agent_name, pubs, subs) ==
    LET agent_item == AgentItem(event_class_to_namespace, agent_name, pubs)
        s == AppendAll(subscriptions, event_to_subscribers, agent_item,
                       event_class_to_namespace, subs)
        p == AppendAll(publications, event_to_publishers, agent_item,
                       event_class_to_namespace, pubs)
    IN  /\ subscriptions' = s[1]
        /\ event_to_subscribers' = event_to_subscribers
        /\ publications' = p[1]
        /\ event_to_publishers' = p[2]
        /\ op' = "_analyze_file"
        /\ file' = AgentFile(agent_name, pubs, subs)
        /\ status' = "returned"
        /\ cycles' = <<>>
        /\ orphaned' = <<>>
        /\ isolated' = <<>>
        /\ counts' = <<>>
        /\ NoSearch
        /\ previous' = Forget
        /\ result' = NoResult
        /\ UNCHANGED <<env, parked, scanner>>

\* Mutant of _analyze_file: the agent's entry of subscriptions is read, which
\* creates it, before the subscribe loop.
analyze_file_touching(agent_name, pubs, subs) ==
    LET agent_item == AgentItem(event_class_to_namespace, agent_name, pubs)
        s == AppendAll(subscriptions, event_to_subscribers, agent_item,
                       event_class_to_namespace, subs)
        p == AppendAll(publications, event_to_publishers, agent_item,
                       event_class_to_namespace, pubs)
    IN  /\ subscriptions' = [a \in DOMAIN s[1] \cup {agent_item} |-> DictGet(s[1], a)]
        /\ event_to_subscribers' = s[2]
        /\ publications' = p[1]
        /\ event_to_publishers' = p[2]
        /\ op' = "_analyze_file"
        /\ file' = AgentFile(agent_name, pubs, subs)
        /\ status' = "returned"
        /\ cycles' = <<>>
        /\ orphaned' = <<>>
        /\ isolated' = <<>>
        /\ counts' = <<>>
        /\ NoSearch
        /\ previous' = Forget
        /\ result' = NoResult
        /\ UNCHANGED <<env, parked, scanner>>

\* Mutant of _analyze_file: the agent is registered in publications before
\* the publish loop, whatever the file holds.
analyze_file_registering(agent_name, pubs, subs) ==
    LET agent_item == AgentItem(event_class_to_namespace, agent_name, pubs)
        s == AppendAll(subscriptions, event_to_subscribers, agent_item,
                       event_class_to_namespace, subs)
        p == AppendAll(publications, event_to_publishers, agent_item,
                       event_class_to_namespace, pubs)
    IN  /\ subscriptions' = s[1]
        /\ event_to_subscribers' = s[2]
        /\ publications' = [a \in DOMAIN p[1] \cup {agent_item} |-> DictGet(p[1], a)]
        /\ event_to_publishers' = p[2]
        /\ op' = "_analyze_file"
        /\ file' = AgentFile(agent_name, pubs, subs)
        /\ status' = "returned"
        /\ cycles' = <<>>
        /\ orphaned' = <<>>
        /\ isolated' = <<>>
        /\ counts' = <<>>
        /\ NoSearch
        /\ previous' = Forget
        /\ result' = NoResult
        /\ UNCHANGED <<env, parked, scanner>>

\* _analyze_file(file_path, agent_name) on a file whose publish calls name
\* pubs and whose subscribe calls name subs, in source order.
_analyze_file(agent_name, pubs, subs) ==
    LET agent_item == AgentItem(event_class_to_namespace, agent_name, pubs)
        s == AppendAll(subscriptions, event_to_subscribers, agent_item,
                       event_class_to_namespace, subs)
        p == AppendAll(publications, event_to_publishers, agent_item,
                       event_class_to_namespace, pubs)
    IN  /\ subscriptions' = s[1]
        /\ event_to_subscribers' = s[2]
        /\ publications' = p[1]
        /\ event_to_publishers' = p[2]
        /\ op' = "_analyze_file"
        /\ file' = AgentFile(agent_name, pubs, subs)
        /\ status' = "returned"
        /\ cycles' = <<>>
        /\ orphaned' = <<>>
        /\ isolated' = <<>>
        /\ counts' = <<>>
        /\ NoSearch
        /\ previous' = Forget
        /\ result' = NoResult
        /\ UNCHANGED <<env, parked, scanner>>

\* Mutant of ReadError: the agent's entry of subscriptions is created before
\* the file is read.
ReadErrorAfterEntry(agent_name) ==
    /\ status # "running"
    /\ subscriptions' = [a \in DOMAIN subscriptions \cup {NamespacedItem(agent_name, "default")}
                            |-> DictGet(subscriptions, a)]
    /\ op' = "_analyze_file"
    /\ file' = AgentFile(agent_name, <<>>, <<>>)
    /\ status' = "raised"
    /\ cycles' = <<>>
    /\ orphaned' = <<>>
    /\ isolated' = <<>>
    /\ counts' = <<>>
    /\ previous' = Forget
    /\ result' = NoResult
    /\ NoSearch
    /\ UNCHANGED <<env, parked, scanner,
                   publications, event_to_subscribers, event_to_publishers>>

\* _analyze_file(file_path, agent_name) on a file that cannot be read:
\* read_text() raises before any mapping is touched, and neither
\* _analyze_file nor analyze catches it.
ReadError(agent_name) ==
    /\ status # "running"
    /\ op' = "_analyze_file"
    /\ file' = AgentFile(agent_name, <<>>, <<>>)
    /\ status' = "raised"
    /\ cycles' = <<>>
    /\ orphaned' = <<>>
    /\ isolated' = <<>>
    /\ counts' = <<>>
    /\ previous' = Forget
    /\ result' = NoResult
    /\ NoSearch
    /\ UNCHANGED <<env, parked, scanner, graph>>

(* ------------------------------- queries ------------------------------- *)
\* Mutant of get_all_events: the keys of event_to_publishers are left out.
get_all_events_subscribed == DOMAIN event_to_subscribers

get_all_events == DOMAIN event_to_subscribers \cup DOMAIN event_to_publishers

get_all_agents == DOMAIN subscriptions \cup DOMAIN publications

\* The set get_all_namespaces builds from the events and the agents.
AllNamespaces ==
    {event.namespace : event \in get_all_events} \cup {agent.namespace : agent \in get_all_agents}

\* Mutant of EntryEvents: every published event is taken as an entry point.
EntryEventsPublished == DOMAIN event_to_publishers

\* entry_events of get_event_chains, as a set: the keys of
\* event_to_publishers that are no key of event_to_subscribers.
EntryEvents ==
    {event \in DOMAIN event_to_publishers : event \notin DOMAIN event_to_subscribers}

\* Mutant of _build_chain: the chain goes on with the events that the first
\* publisher of the event subscribes to.
build_chain_upstream(event, seen) ==
    IF event \in seen THEN [chain |-> <<>>, visited |-> seen]
    ELSE LET publishers == DictGet(event_to_publishers, event)
             heard == IF publishers = <<>> THEN <<>>
                      ELSE SelectSeq(DictGet(subscriptions, publishers[1]),
                                     LAMBDA e : e \notin seen \cup {event})
         IN  [chain |-> <<event>> \o heard,
              visited |-> seen \cup {event} \cup Range(heard)]

RECURSIVE _build_chain(_, _)
RECURSIVE ChainOfSubscribers(_, _, _)
RECURSIVE ChainOfPublished(_, _, _)
\* _build_chain(event, visited): the chain it returns and the visited set it
\* leaves (the set is shared by every call).
_build_chain(event, seen) ==
    IF event \in seen THEN [chain |-> <<>>, visited |-> seen]
    ELSE ChainOfSubscribers(DictGet(event_to_subscribers, event), <<event>>,
                            seen \cup {event})

\* The loop of _build_chain over the subscribers of the event.
ChainOfSubscribers(subscribers, chain, seen) ==
    IF subscribers = <<>> THEN [chain |-> chain, visited |-> seen]
    ELSE LET r == ChainOfPublished(DictGet(publications, Head(subscribers)), chain, seen)
         IN  ChainOfSubscribers(Tail(subscribers), r.chain, r.visited)

\* The loop of _build_chain over the events one subscriber publishes.
ChainOfPublished(published_events, chain, seen) ==
    IF published_events = <<>> THEN [chain |-> chain, visited |-> seen]
    ELSE LET r == _build_chain(Head(published_events), seen)
         IN  ChainOfPublished(Tail(published_events), chain \o r.chain, r.visited)

RECURSIVE EventChainsPrepending(_, _, _)
\* Mutant of EventChains: the entry event is put in front of its chain.
EventChainsPrepending(entry_events, chains, seen) ==
    IF entry_events = <<>> THEN chains
    ELSE LET r == _build_chain(Head(entry_events), seen)
         IN  EventChainsPrepending(Tail(entry_events),
                 IF r.chain # <<>> THEN Append(chains, <<Head(entry_events)>> \o r.chain)
                 ELSE chains,
                 r.visited)

RECURSIVE EventChains(_, _, _)
\* The loop of get_event_chains over entry_events: a chain that is not
\* empty is appended to chains.
EventChains(entry_events, chains, seen) ==
    IF entry_events = <<>> THEN chains
    ELSE LET r == _build_chain(Head(entry_events), seen)
         IN  EventChains(Tail(entry_events),
                 IF r.chain # <<>> THEN Append(chains, r.chain) ELSE chains,
                 r.visited)

(* -------------------------- AnomalyDetector ---------------------------- *)
\* Mutant of OrphanFindings: both tests read event_to_publishers.
OrphanFindingsOneMap(event) ==
    (IF DictGet(event_to_publishers, event) = <<>>
     THEN <<[event |-> event.name, namespace |-> event.namespace,
             type |-> "never_published", severity |-> "warning"]>>
     ELSE <<>>)
    \o
    (IF DictGet(event_to_publishers, event) = <<>>
     THEN <<[event |-> event.name, namespace |-> event.namespace,
             type |-> "never_subscribed", severity |-> "info"]>>
     ELSE <<>>)

\* The findings detect_orphaned_events appends for one event.
OrphanFindings(event) ==
    (IF DictGet(event_to_publishers, event) = <<>>
     THEN <<[event |-> event.name, namespace |-> event.namespace,
             type |-> "never_published", severity |-> "warning"]>>
     ELSE <<>>)
    \o
    (IF DictGet(event_to_subscribers, event) = <<>>
     THEN <<[event |-> event.name, namespace |-> event.namespace,
             type |-> "never_subscribed", severity |-> "info"]>>
     ELSE <<>>)

RECURSIVE OrphanedEvents(_)
\* The list detect_orphaned_events returns when the set get_all_events() is
\* iterated in the given order.
OrphanedEvents(order) ==
    IF order = <<>> THEN <<>>
    ELSE OrphanFindings(Head(order)) \o OrphanedEvents(Tail(order))

\* Mutant of IsIsolated: one missing role is enough.
IsIsolatedEither(agent) ==
    LET is_publisher == agent \in DOMAIN publications /\ Len(publications[agent]) > 0
        is_subscriber == agent \in DOMAIN subscriptions /\ Len(subscriptions[agent]) > 0
    IN  ~is_publisher \/ ~is_subscriber

\* The test of detect_isolated_agents on one agent.
IsIsolated(agent) ==
    LET is_publisher == agent \in DOMAIN publications /\ Len(publications[agent]) > 0
        is_subscriber == agent \in DOMAIN subscriptions /\ Len(subscriptions[agent]) > 0
    IN  ~is_publisher /\ ~is_subscriber

RECURSIVE IsolatedAgents(_)
\* The list detect_isolated_agents returns when the set get_all_agents() is
\* iterated in the given order.
IsolatedAgents(order) ==
    IF order = <<>> THEN <<>>
    ELSE (IF IsIsolated(Head(order))
          THEN <<[agent |-> Head(order).name, namespace |-> Head(order).namespace,
                  severity |-> "info"]>>
          ELSE <<>>)
         \o IsolatedAgents(Tail(order))

\* Mutant of Successors: self-loops are kept.
SuccessorsWithSelf(agent) ==
    UNION {Range(DictGet(event_to_subscribers, event)) : event \in Range(publications[agent])}

\* The agents that agent reaches through one published event.
Successors(agent) ==
    {subscriber \in UNION {Range(DictGet(event_to_subscribers, event)) :
                              event \in Range(publications[agent])} :
        subscriber # agent}

\* agent_graph as detect_cycles builds it: a defaultdict(set) that gets a key
\* only for an agent with at least one edge.
BuildAgentGraph ==
    [agent \in {a \in DOMAIN publications : Successors(a) # {}} |-> Successors(agent)]

\* agent_graph.get(agent, [])
Neighbors(g, agent) == IF agent \in DOMAIN g THEN g[agent] ELSE {}

\* Mutant of PathIndex: the cycle is taken from the start of path.
PathIndexStart(p, neighbor) == 1

\* path.index(neighbor), for a neighbor that is in path.
PathIndex(p, neighbor) ==
    CHOOSE i \in 1..Len(p) : p[i] = neighbor /\ \A j \in 1..(i - 1) : p[j] # neighbor

\* The names of the events current publishes that next_agent subscribes to.
ConnectingEvents(current, next_agent) ==
    LET hits == SelectSeq(DictGet(publications, current),
                          LAMBDA event : next_agent \in Range(DictGet(event_to_subscribers, event)))
    IN  [i \in 1..Len(hits) |-> hits[i].name]

\* The finding detect_cycles appends for the agents cycle_agents (its
\* message is a rendering of 'cycle' and is left out).
CycleFinding(cycle_agents) ==
    [cycle |-> [i \in 1..Len(cycle_agents) |-> cycle_agents[i].name],
     path |-> [i \in 1..Len(cycle_agents) |->
                 [agent |-> cycle_agents[i].name,
                  namespace |-> cycle_agents[i].namespace,
                  publishes |-> ConnectingEvents(cycle_agents[i],
                                    cycle_agents[(i % Len(cycle_agents)) + 1])]],
     severity |-> "warning"]

\* Mutant of DfsEnter: the agent is not added to rec_stack.
DfsEnterNoStack(agent, p, fs) ==
    /\ visited' = visited \cup {agent}
    /\ rec_stack' = rec_stack
    /\ path' = Append(p, agent)
    /\ frames' = Append(fs, [agent |-> agent, todo |-> Neighbors(agent_graph, agent)])

\* The entry of dfs(agent): the three additions before its loop.
DfsEnter(agent, p, fs) ==
    /\ visited' = visited \cup {agent}
    /\ rec_stack' = rec_stack \cup {agent}
    /\ path' = Append(p, agent)
    /\ frames' = Append(fs, [agent |-> agent, todo |-> Neighbors(agent_graph, agent)])

\* The running frame, with neighbor taken from its loop.
Advance(neighbor) ==
    [frames EXCEPT ![Len(frames)].todo = @ \ {neighbor}]

Searching == status = "running"

\* Mutant of StartSearch: visited is kept from the call before.
StartSearchKeepingVisited(name, orphans) ==
    /\ status # "running"
    /\ op' = name
    /\ file' = NoFile
    /\ status' = "running"
    /\ agent_graph' = BuildAgentGraph
    /\ all_agents' = get_all_agents
    /\ visited' = visited
    /\ rec_stack' = {}
    /\ path' = <<>>
    /\ frames' = <<>>
    /\ cycles' = <<>>
    /\ orphaned' = orphans
    /\ isolated' = <<>>
    /\ counts' = <<>>
    /\ previous' = Remember
    /\ result' = NoResult
    /\ UNCHANGED <<env, parked, scanner, graph>>

\* A call of detect_cycles, directly or through detect_all and
\* get_anomaly_summary: the agent graph is built and the search starts.
StartSearch(name, orphans) ==
    /\ status # "running"
    /\ op' = name
    /\ file' = NoFile
    /\ status' = "running"
    /\ agent_graph' = BuildAgentGraph
    /\ all_agents' = get_all_agents
    /\ visited' = {}
    /\ rec_stack' = {}
    /\ path' = <<>>
    /\ frames' = <<>>
    /\ cycles' = <<>>
    /\ orphaned' = orphans
    /\ isolated' = <<>>
    /\ counts' = <<>>
    /\ previous' = Remember
    /\ result' = NoResult
    /\ UNCHANGED <<env, parked, scanner, graph>>

detect_cycles == StartSearch("detect_cycles", <<>>)

\* detect_all evaluates detect_orphaned_events before detect_cycles.
detect_all ==
    \E order \in IterationOrders(get_all_events) :
        StartSearch("detect_all", OrphanedEvents(order))

get_anomaly_summary ==
    \E order \in IterationOrders(get_all_events) :
        StartSearch("get_anomaly_summary", OrphanedEvents(order))

\* The root loop meets an agent the search has not visited: path is reset
\* and dfs(agent) is called.
RootVisit ==
    /\ Searching /\ frames = <<>>
    /\ \E agent \in NextOf(all_agents) :
        /\ agent \notin visited
        /\ all_agents' = all_agents \ {agent}
        /\ DfsEnter(agent, <<>>, <<>>)
    /\ UNCHANGED <<env, parked, scanner,
                   previous, result, graph, op, file, status, agent_graph,
                   cycles, orphaned, isolated, counts>>

\* The root loop meets an agent already visited.
RootSkip ==
    /\ Searching /\ frames = <<>>
    /\ \E agent \in NextOf(all_agents) :
        /\ agent \in visited
        /\ all_agents' = all_agents \ {agent}
    /\ UNCHANGED <<env, parked, scanner,
                   previous, result, graph, op, file, status, agent_graph,
                   visited, rec_stack, path, frames, cycles, orphaned, isolated,
                   counts>>

\* dfs meets an unvisited neighbor and calls dfs(neighbor).
DfsDescend ==
    /\ Searching /\ frames # <<>>
    /\ \E neighbor \in NextOf(frames[Len(frames)].todo) :
        /\ neighbor \notin visited
        /\ DfsEnter(neighbor, path, Advance(neighbor))
    /\ UNCHANGED <<env, parked, scanner,
                   previous, result, graph, op, file, status, agent_graph,
                   all_agents, cycles, orphaned, isolated, counts>>

\* dfs meets a visited neighbor that is not in rec_stack.
DfsSkip ==
    /\ Searching /\ frames # <<>>
    /\ \E neighbor \in NextOf(frames[Len(frames)].todo) :
        /\ neighbor \in visited
        /\ neighbor \notin rec_stack
        /\ frames' = Advance(neighbor)
    /\ UNCHANGED <<env, parked, scanner,
                   previous, result, graph, op, file, status, agent_graph,
                   all_agents, visited, rec_stack, path, cycles, orphaned,
                   isolated, counts>>

\* Mutant of DfsCycle: the finding is appended and the loop goes on.
DfsCycleGoesOn ==
    /\ Searching /\ frames # <<>>
    /\ \E neighbor \in NextOf(frames[Len(frames)].todo) :
        /\ neighbor \in visited
        /\ neighbor \in rec_stack
        /\ neighbor \in Range(path)
        /\ cycles' = Append(cycles,
                CycleFinding(SubSeq(path, PathIndex(path, neighbor), Len(path))))
        /\ frames' = Advance(neighbor)
    /\ UNCHANGED <<env, parked, scanner,
                   previous, result, graph, op, file, status, agent_graph,
                   all_agents, visited, rec_stack, path, orphaned, isolated,
                   counts>>

\* dfs meets a neighbor in rec_stack that is in path: the finding is appended
\* and every active dfs call returns True; rec_stack and path keep their
\* members.
DfsCycle ==
    /\ Searching /\ frames # <<>>
    /\ \E neighbor \in NextOf(frames[Len(frames)].todo) :
        /\ neighbor \in visited
        /\ neighbor \in rec_stack
        /\ neighbor \in Range(path)
        /\ cycles' = Append(cycles,
                CycleFinding(SubSeq(path, PathIndex(path, neighbor), Len(path))))
    /\ frames' = <<>>
    /\ UNCHANGED <<env, parked, scanner,
                   previous, result, graph, op, file, status, agent_graph,
                   all_agents, visited, rec_stack, path, orphaned, isolated,
                   counts>>

\* dfs meets a neighbor in rec_stack that is not in path: path.index raises
\* ValueError, which no caller catches.
DfsIndexError ==
    /\ Searching /\ frames # <<>>
    /\ \E neighbor \in NextOf(frames[Len(frames)].todo) :
        /\ neighbor \in visited
        /\ neighbor \in rec_stack
        /\ neighbor \notin Range(path)
    /\ status' = "raised"
    /\ UNCHANGED <<env, parked, scanner,
                   previous, result, graph, op, file, search, cycles,
                   orphaned, isolated, counts>>

\* The loop of dfs is over: path.pop(), rec_stack.remove(agent), return False.
DfsReturn ==
    /\ Searching /\ frames # <<>>
    /\ frames[Len(frames)].todo = {}
    /\ path' = SubSeq(path, 1, Len(path) - 1)
    /\ rec_stack' = rec_stack \ {frames[Len(frames)].agent}
    /\ frames' = SubSeq(frames, 1, Len(frames) - 1)
    /\ UNCHANGED <<env, parked, scanner,
                   previous, result, graph, op, file, status, agent_graph,
                   all_agents, visited, cycles, orphaned, isolated, counts>>

\* Mutant of Summary: the total leaves the cycles out.
SummaryWithoutCycles(o, c, i) ==
    [orphaned_events_count |-> Len(o),
     cycles_count |-> Len(c),
     isolated_agents_count |-> Len(i),
     total_anomalies |-> Len(o) + Len(i)]

\* The dictionary get_anomaly_summary builds from the three lists.
Summary(o, c, i) ==
    [orphaned_events_count |-> Len(o),
     cycles_count |-> Len(c),
     isolated_agents_count |-> Len(i),
     total_anomalies |-> Len(o) + Len(c) + Len(i)]

\* The root loop is over: detect_cycles returns cycles; detect_all goes on
\* to detect_isolated_agents and get_anomaly_summary to its counts.
SearchReturn ==
    /\ Searching /\ frames = <<>> /\ all_agents = {}
    /\ status' = "returned"
    /\ IF op = "detect_cycles"
       THEN isolated' = <<>> /\ counts' = <<>>
       ELSE \E order \in IterationOrders(get_all_agents) :
                /\ isolated' = IsolatedAgents(order)
                /\ counts' = IF op = "get_anomaly_summary"
                             THEN Summary(orphaned, cycles, IsolatedAgents(order))
                             ELSE <<>>
    /\ UNCHANGED <<env, parked, scanner,
                   previous, result, graph, op, file, search, cycles, orphaned>>

\* A direct call of detect_orphaned_events.
detect_orphaned_events ==
    /\ status # "running"
    /\ op' = "detect_orphaned_events"
    /\ file' = NoFile
    /\ status' = "returned"
    /\ \E order \in IterationOrders(get_all_events) : orphaned' = OrphanedEvents(order)
    /\ cycles' = <<>>
    /\ isolated' = <<>>
    /\ counts' = <<>>
    /\ NoSearch
    /\ previous' = Remember
    /\ result' = NoResult
    /\ UNCHANGED <<env, parked, scanner, graph>>

\* Mutant of detect_isolated_agents: the two lists are read by index, which
\* creates the missing keys of the defaultdicts.
detect_isolated_agents_by_index ==
    /\ status # "running"
    /\ op' = "detect_isolated_agents"
    /\ file' = NoFile
    /\ status' = "returned"
    /\ \E order \in IterationOrders(get_all_agents) : isolated' = IsolatedAgents(order)
    /\ cycles' = <<>>
    /\ orphaned' = <<>>
    /\ counts' = <<>>
    /\ NoSearch
    /\ previous' = Remember
    /\ result' = NoResult
    /\ subscriptions' = [a \in get_all_agents |-> DictGet(subscriptions, a)]
    /\ publications' = [a \in get_all_agents |-> DictGet(publications, a)]
    /\ UNCHANGED <<env, parked, scanner,
                   event_to_subscribers, event_to_publishers>>

\* A direct call of detect_isolated_agents.
detect_isolated_agents ==
    /\ status # "running"
    /\ op' = "detect_isolated_agents"
    /\ file' = NoFile
    /\ status' = "returned"
    /\ \E order \in IterationOrders(get_all_agents) : isolated' = IsolatedAgents(order)
    /\ cycles' = <<>>
    /\ orphaned' = <<>>
    /\ counts' = <<>>
    /\ NoSearch
    /\ previous' = Remember
    /\ result' = NoResult
    /\ UNCHANGED <<env, parked, scanner, graph>>

(* --------------------------- calls of queries -------------------------- *)
\* A call of a query of the analyzer that returns value.
Query(name, value) ==
    /\ status # "running"
    /\ op' = name
    /\ file' = NoFile
    /\ status' = "returned"
    /\ result' = value
    /\ cycles' = <<>>
    /\ orphaned' = <<>>
    /\ isolated' = <<>>
    /\ counts' = <<>>
    /\ NoSearch
    /\ previous' = Remember
    /\ UNCHANGED <<env, parked, scanner, graph>>

\* get_event_chains(): the keys of event_to_publishers are met in the order
\* of their insertion, which the mappings do not record: any order.
get_event_chains ==
    \E order \in Orders(EntryEvents) :
        Query("get_event_chains", [NoResult EXCEPT !.chains = EventChains(order, <<>>, {})])

get_all_namespaces ==
    Query("get_all_namespaces", [NoResult EXCEPT !.namespaces = AllNamespaces])

\* Calls of get_all_events() and of get_all_agents().
AllEventsCall == Query("get_all_events", [NoResult EXCEPT !.items = get_all_events])

AllAgentsCall == Query("get_all_agents", [NoResult EXCEPT !.items = get_all_agents])

(* --------------------------- specifications ---------------------------- *)
\* The analyzer after __init__ over an events directory with the given
\* class declarations.
Constructed(decls) ==
    /\ event_class_to_namespace = ScanEventsDirectory(EmptyDict, decls)
    /\ subscriptions = EmptyDict
    /\ publications = EmptyDict
    /\ event_to_subscribers = EmptyDict
    /\ event_to_publishers = EmptyDict
    /\ op = "__init__"
    /\ file = NoFile
    /\ status = "returned"
    /\ agent_graph = EmptyDict
    /\ all_agents = {}
    /\ visited = {}
    /\ rec_stack = {}
    /\ path = <<>>
    /\ frames = <<>>
    /\ cycles = <<>>
    /\ orphaned = <<>>
    /\ isolated = <<>>
    /\ counts = <<>>
    /\ events_dir = decls
    /\ previous = <<>>
    /\ result = NoResult
    /\ parked = IdleReader
    /\ scanner = NoScanner

\* The iteration order of the sets of the process is left open.
AnyOrder == hash_order = <<>>

Init == \E decls \in SeqsUpTo(NamespaceDirs \X DeclaredClasses, MaxDecls) :
            Constructed(decls) /\ AnyOrder

\* The smaller of two numbers.
Min(m, n) == IF m < n THEN m ELSE n

\* analyze() meets one more agent file; the graph has room for MaxFacts
\* facts.
Ingest ==
    /\ status # "running"
    /\ \E agent_name \in AgentNames,
          pubs \in SeqsUpTo(EventClasses, Min(MaxPub, MaxFacts - Facts)) :
          \E subs \in SeqsUpTo(EventClasses, Min(MaxSub, MaxFacts - Facts - Len(pubs))) :
              _analyze_file(agent_name, pubs, subs)

\* The first n members of a list.
Prefix(names, n) == SubSeq(names, 1, IF n < Len(names) THEN n ELSE Len(names))

\* Position of a name in a list without repetitions (0 when it is missing).
IndexIn(names, name) ==
    IF name \in Range(names) THEN CHOOSE i \in 1..Len(names) : names[i] = name ELSE 0

\* Largest position in names of a name that some item of items carries.
MaxIndex(names, items) ==
    LET used == {IndexIn(names, item.name) : item \in items} \cup {0}
    IN  CHOOSE m \in used : \A n \in used : n <= m

RECURSIVE InOrderOfAppearance(_, _)
\* A file names the event classes in order of first appearance: each class is
\* one seen before or the first one not yet seen.
InOrderOfAppearance(classes, seen) ==
    IF classes = <<>> THEN TRUE
    ELSE /\ IndexIn(ClassNames, Head(classes)) <= seen + 1
         /\ InOrderOfAppearance(Tail(classes),
                IF IndexIn(ClassNames, Head(classes)) > seen THEN seen + 1 ELSE seen)

\* analyze() meets one more agent file of a code base of n agent files, which
\* it meets in the order of FileStems: the file's stem comes after the stems
\* of the agents in the graph.
IngestInOrder(n) ==
    /\ status # "running"
    /\ \E i \in 1..Len(Prefix(FileStems, n)),
          pubs \in SeqsUpTo(Range(Prefix(ClassNames, SearchEvents)), FileCalls),
          subs \in SeqsUpTo(Range(Prefix(ClassNames, SearchEvents)), FileCalls) :
          /\ i > MaxIndex(FileStems, get_all_agents)
          /\ InOrderOfAppearance(subs \o pubs, MaxIndex(ClassNames, get_all_events))
          /\ _analyze_file(FileStems[i], pubs, subs)

Search ==
    \/ RootVisit
    \/ RootSkip
    \/ DfsDescend
    \/ DfsSkip
    \/ DfsCycle
    \/ DfsIndexError
    \/ DfsReturn
    \/ SearchReturn

Next ==
    \/ Ingest
    \/ detect_orphaned_events
    \/ detect_isolated_agents

Spec == Init /\ [][Next]_vars

\* The analyzer constructed without an events directory, fed the agent files
\* of a code base of SearchAgents agents, and searched for cycles.
InitCycles == Constructed(<<>>) /\ AnyOrder

IngestSearch == IngestInOrder(SearchAgents)

NextCycles ==
    \/ IngestSearch
    \/ detect_cycles
    \/ Search

SpecCycles == InitCycles /\ [][NextCycles]_vars

\* The same for a code base of ReportAgents agents and every operation of
\* the detector.
IngestReport == IngestInOrder(ReportAgents)

NextReport ==
    \/ IngestReport
    \/ detect_orphaned_events
    \/ detect_isolated_agents
    \/ detect_cycles
    \/ detect_all
    \/ get_anomaly_summary
    \/ Search
    \/ get_event_chains
    \/ get_all_namespaces
    \/ AllEventsCall
    \/ AllAgentsCall

SpecReport == InitCycles /\ [][NextReport]_vars

\* The analyzer constructed over an events directory of two namespaces, and
\* _analyze_file called directly with any agent name, on readable and on
\* unreadable files.
InitNames ==
    \E decls \in SeqsUpTo(NameDirs \X NamedClasses, NameDecls) :
        Constructed(decls) /\ AnyOrder

IngestNamed ==
    /\ status # "running"
    /\ \E agent_name \in GivenNames,
          pubs \in SeqsUpTo(NamedClasses, Min(NamePubs, NameFacts - Facts)) :
          \E subs \in SeqsUpTo(NamedClasses, Min(NameSubs, NameFacts - Facts - Len(pubs))) :
              _analyze_file(agent_name, pubs, subs)

IngestUnreadable == \E agent_name \in GivenNames : ReadError(agent_name)

NextNames ==
    \/ IngestNamed
    \/ IngestUnreadable

SpecNames == InitNames /\ [][NextNames]_vars

\* The analyzer and the detector in one process, whose sets iterate in the
\* order hash_order fixes: a code base of TwiceAgents agent files is
\* ingested and the detector is called again and again.
InitTwice ==
    /\ Constructed(<<>>)
    /\ hash_order \in {agents \o events :
                          agents \in Orders(Range(Prefix(FileStems, TwiceAgents))),
                          events \in Orders(Range(Prefix(ClassNames, TwiceEvents)))}

IngestTwice ==
    /\ status # "running"
    /\ \E i \in 1..Len(Prefix(FileStems, TwiceAgents)),
          pubs \in SeqsUpTo(Range(Prefix(ClassNames, TwiceEvents)), FileCalls),
          subs \in SeqsUpTo(Range(Prefix(ClassNames, TwiceEvents)), FileCalls) :
          /\ i > MaxIndex(FileStems, get_all_agents)
          /\ _analyze_file(FileStems[i], pubs, subs)

NextTwice ==
    \/ IngestTwice
    \/ detect_orphaned_events
    \/ detect_isolated_agents
    \/ detect_cycles
    \/ detect_all
    \/ get_anomaly_summary
    \/ Search

SpecTwice == InitTwice /\ [][NextTwice]_vars

(* -------------------------- concurrent readers ------------------------- *)
\* Mutant of Switch: visited is kept on the detector and shared by the
\* calls of the two readers.
SwitchSharingVisited ==
    /\ Locals # parked
    /\ \/ op \notin {"__init__", "_analyze_file"}
       \/ parked.op \notin {"__init__", "_analyze_file"}
    /\ parked' = Locals
    /\ op' = parked.op
    /\ status' = parked.status
    /\ agent_graph' = parked.agent_graph
    /\ all_agents' = parked.all_agents
    /\ visited' = visited
    /\ rec_stack' = parked.rec_stack
    /\ path' = parked.path
    /\ frames' = parked.frames
    /\ cycles' = parked.cycles
    /\ orphaned' = parked.orphaned
    /\ isolated' = parked.isolated
    /\ counts' = parked.counts
    /\ result' = parked.result
    /\ UNCHANGED <<env, scanner, graph, file, previous>>

\* The interpreter passes from one reader thread to the other: every local
\* of detect_cycles (cycles, all_agents, agent_graph, visited, rec_stack,
\* path and the dfs calls) belongs to the call, the detector itself holds
\* nothing but its analyzer, so the running call is parked with its locals
\* and the parked one goes on with its own.
Switch ==
    /\ Locals # parked
    /\ \/ op \notin {"__init__", "_analyze_file"}
       \/ parked.op \notin {"__init__", "_analyze_file"}
    /\ parked' = Locals
    /\ op' = parked.op
    /\ status' = parked.status
    /\ agent_graph' = parked.agent_graph
    /\ all_agents' = parked.all_agents
    /\ visited' = parked.visited
    /\ rec_stack' = parked.rec_stack
    /\ path' = parked.path
    /\ frames' = parked.frames
    /\ cycles' = parked.cycles
    /\ orphaned' = parked.orphaned
    /\ isolated' = parked.isolated
    /\ counts' = parked.counts
    /\ result' = parked.result
    /\ UNCHANGED <<env, scanner, graph, file, previous>>

\* One process, whose sets iterate in one order, with two reader threads.
InitReaders ==
    /\ Constructed(<<>>)
    /\ hash_order \in {agents \o events :
                          agents \in Orders(Range(Prefix(FileStems, ReaderAgents))),
                          events \in Orders(Range(Prefix(ClassNames, ReaderEvents)))}

\* Ingestion is over before the first reader calls anything.
IngestReaders ==
    /\ op \in {"__init__", "_analyze_file"}
    /\ parked = IdleReader
    /\ \E i \in 1..Len(Prefix(FileStems, ReaderAgents)),
          pubs \in SeqsUpTo(Range(Prefix(ClassNames, ReaderEvents)), FileCalls),
          subs \in SeqsUpTo(Range(Prefix(ClassNames, ReaderEvents)), FileCalls) :
          /\ i > MaxIndex(FileStems, get_all_agents)
          /\ _analyze_file(FileStems[i], pubs, subs)

NextReaders ==
    \/ IngestReaders
    \/ detect_orphaned_events
    \/ detect_isolated_agents
    \/ detect_cycles
    \/ detect_all
    \/ AllAgentsCall
    \/ Search
    \/ Switch

SpecReaders == InitReaders /\ [][NextReaders]_vars

(* --------------------------- EventFlowScanner -------------------------- *)
\* What requests.post can give _push_to_api: a response with status 201, a
\* response with another status, or a RequestException.
Responses == {"201", "500", "RequestException"}

\* What becomes of the file _generate_postman_collection writes: it is
\* written, or open/json.dump raise IOError, which the method catches.
WriteOutcomes == {"generated", "IOError"}

\* The value None of a dot_content, and the text of a graph description.
NoDot == ""
DotText == "digraph EventFlow"

\* _generate_complete_dot(analyzer): the loop over sorted(events) evaluates
\* '.' in event on a NamespacedItem, which raises TypeError on the first
\* event; without events (and hence without agents and edges) the text is
\* returned.
_generate_complete_dot == IF get_all_events # {} THEN "TypeError" ELSE DotText

\* generate_hierarchical_tree(analyzer, path, 'dot'): the loop over
\* sorted(agents) evaluates agent.replace on a NamespacedItem, which raises
\* AttributeError on the first agent; without agents the text is written.
generate_hierarchical_tree == IF get_all_agents # {} THEN "AttributeError" ELSE DotText

\* _generate_dot(analyzer, graph_type): the content of the temporary file,
\* or None when the generator raised.
_generate_dot(graph_type) ==
    LET content == IF graph_type = "complete" THEN _generate_complete_dot
                   ELSE generate_hierarchical_tree
    IN  IF content \in {"TypeError", "AttributeError"} THEN NoDot ELSE content

\* _get_namespaces(): the names of the directories below events_dir.
_get_namespaces == {events_dir[i][1] : i \in 1..Len(events_dir)}

\* The payload scan_once builds for a graph type.
Payload(graph_type, dot_content) ==
    [graph_type |-> graph_type,
     dot_content |-> dot_content,
     stats |-> [events |-> Cardinality(get_all_events),
                agents |-> Cardinality(get_all_agents),
                connections |->
                    TotalLen(event_to_subscribers, DOMAIN event_to_subscribers)
                        + TotalLen(publications, DOMAIN publications)],
     namespaces |-> _get_namespaces]

\* Mutant of _push_to_api: the flag is set only when the file was written.
push_to_api_flag_when_written(sc, payload, response, written) ==
    LET posted == [sc EXCEPT !.posted = Append(@, payload), !.log = Append(@, response)]
    IN  IF response = "201"
        THEN [success |-> TRUE,
              scanner |->
                  IF sc.postman_dir /\ ~sc.postman_collection_generated
                  THEN [posted EXCEPT !.log = Append(@, written),
                                      !.postman_collection_generated = (written = "generated")]
                  ELSE posted]
        ELSE [success |-> FALSE, scanner |-> posted]

\* _push_to_api(payload) on the scanner sc, when requests.post gives
\* response and the collection file meets the fate written: the scanner
\* after the call and the value returned. The log records the responses
\* and the attempts to generate the Postman collection.
_push_to_api(sc, payload, response, written) ==
    LET posted == [sc EXCEPT !.posted = Append(@, payload), !.log = Append(@, response)]
    IN  IF response = "201"
        THEN [success |-> TRUE,
              scanner |->
                  IF sc.postman_dir /\ ~sc.postman_collection_generated
                  THEN [posted EXCEPT !.log = Append(@, written),
                                      !.postman_collection_generated = TRUE]
                  ELSE posted]
        ELSE [success |-> FALSE, scanner |-> posted]

\* scan_once() is called: a new EventFlowAnalyzer(agents_dir), without an
\* events directory, is constructed and analyze() starts.
ScanStart ==
    /\ scanner.pc = "idle"
    /\ scanner.calls < MaxScans
    /\ event_class_to_namespace' = ScanEventsDirectory(EmptyDict, <<>>)
    /\ subscriptions' = EmptyDict
    /\ publications' = EmptyDict
    /\ event_to_subscribers' = EmptyDict
    /\ event_to_publishers' = EmptyDict
    /\ op' = "__init__"
    /\ file' = NoFile
    /\ status' = "returned"
    /\ cycles' = <<>>
    /\ orphaned' = <<>>
    /\ isolated' = <<>>
    /\ counts' = <<>>
    /\ NoSearch
    /\ previous' = Forget
    /\ result' = NoResult
    /\ scanner' = [scanner EXCEPT !.pc = "analyze", !.calls = @ + 1,
                                  !.results = <<>>, !.posted = <<>>]
    /\ UNCHANGED <<events_dir, hash_order, parked>>

\* analyze(), called by scan_once, meets one more agent file.
ScanAnalyzeFile ==
    /\ scanner.pc = "analyze"
    /\ \E i \in 1..Len(Prefix(FileStems, ScanAgents)),
          pubs \in SeqsUpTo(Range(Prefix(ClassNames, ScanEvents)), FileCalls),
          subs \in SeqsUpTo(Range(Prefix(ClassNames, ScanEvents)), FileCalls) :
          /\ i > MaxIndex(FileStems, get_all_agents)
          /\ _analyze_file(FileStems[i], pubs, subs)

\* One pass of the loop of scan_once over graph_types: the DOT text is
\* generated and, when there is one, the payload is pushed.
ScanGraphType(graph_type, at, then) ==
    /\ scanner.pc = at
    /\ LET dot_content == _generate_dot(graph_type)
       IN  IF dot_content # NoDot
           THEN \E response \in Responses, written \in WriteOutcomes :
                    LET pushed == _push_to_api(scanner, Payload(graph_type, dot_content),
                                               response, written)
                    IN  scanner' = [pushed.scanner EXCEPT
                                        !.results = Append(@, <<graph_type, pushed.success>>),
                                        !.pc = then]
           ELSE scanner' = [scanner EXCEPT
                                !.results = Append(@, <<graph_type, FALSE>>),
                                !.pc = then]
    /\ UNCHANGED <<env, parked, previous, result, graph, op, file, status, search,
                   cycles, orphaned, isolated, counts>>

\* analyze() has returned and scan_once processes 'complete'.
ScanComplete == ScanGraphType("complete", "analyze", "full-tree")

\* scan_once processes 'full-tree' and returns results.
ScanFullTree == ScanGraphType("full-tree", "full-tree", "idle")

\* EventFlowScanner.__init__ over an events directory with the given
\* declarations, with or without a postman_dir; no scan has run.
ScannerConstructed(decls, postman_dir) ==
    /\ event_class_to_namespace = EmptyDict
    /\ subscriptions = EmptyDict
    /\ publications = EmptyDict
    /\ event_to_subscribers = EmptyDict
    /\ event_to_publishers = EmptyDict
    /\ op = "__init__"
    /\ file = NoFile
    /\ status = "returned"
    /\ agent_graph = EmptyDict
    /\ all_agents = {}
    /\ visited = {}
    /\ rec_stack = {}
    /\ path = <<>>
    /\ frames = <<>>
    /\ cycles = <<>>
    /\ orphaned = <<>>
    /\ isolated = <<>>
    /\ counts = <<>>
    /\ events_dir = decls
    /\ previous = <<>>
    /\ result = NoResult
    /\ parked = IdleReader
    /\ scanner = [NoScanner EXCEPT !.postman_dir = postman_dir, !.pc = "idle"]

InitScanner ==
    \E decls \in SeqsUpTo(NamespaceDirs \X DeclaredClasses, MaxDecls),
       postman_dir \in BOOLEAN :
        ScannerConstructed(decls, postman_dir) /\ AnyOrder

NextScanner ==
    \/ ScanStart
    \/ ScanAnalyzeFile
    \/ ScanComplete
    \/ ScanFullTree

SpecScanner == InitScanner /\ [][NextScanner]_vars

(* =============================== claims ================================ *)
\* The agents and events some mapping mentions, as key or as list member.
MentionedAgents ==
    get_all_agents
        \cup UNION {Range(event_to_subscribers[e]) : e \in DOMAIN event_to_subscribers}
        \cup UNION {Range(event_to_publishers[e]) : e \in DOMAIN event_to_publishers}

MentionedEvents ==
    get_all_events
        \cup UNION {Range(subscriptions[a]) : a \in DOMAIN subscriptions}
        \cup UNION {Range(publications[a]) : a \in DOMAIN publications}

\* C1: transpose consistency. After any sequence of ingestions, for every
\* agent a and event e, e is in subscriptions[a] iff a is in
\* event_to_subscribers[e], and e is in publications[a] iff a is in
\* event_to_publishers[e].
C1_Transpose ==
    \A a \in MentionedAgents, e \in MentionedEvents :
        /\ e \in Range(DictGet(subscriptions, a))
              <=> a \in Range(DictGet(event_to_subscribers, e))
        /\ e \in Range(DictGet(publications, a))
              <=> a \in Range(DictGet(event_to_publishers, e))

\* C1 witness: two ingestions have left an event with two subscribers and a
\* publisher.
C1_Witness ==
    /\ op = "_analyze_file"
    /\ \E e \in DOMAIN event_to_subscribers :
        /\ Cardinality(Range(event_to_subscribers[e])) = 2
        /\ e \in DOMAIN event_to_publishers

\* Number of findings of a list that equal f.
Count(findings, f) == Cardinality({i \in 1..Len(findings) : findings[i] = f})

OrphanFinding(e, type, severity) ==
    [event |-> e.name, namespace |-> e.namespace, type |-> type, severity |-> severity]

\* C7: orphan correctness. detect_orphaned_events reports an event of
\* get_all_events() as never_published (warning) iff it has no publisher,
\* as never_subscribed (info) iff it has no subscriber, each at most once
\* and independently, and reports nothing else.
C7_OrphanCorrect ==
    (op = "detect_orphaned_events" /\ status = "returned") =>
        /\ \A e \in get_all_events :
            /\ Count(orphaned, OrphanFinding(e, "never_published", "warning"))
                  = (IF DictGet(event_to_publishers, e) = <<>> THEN 1 ELSE 0)
            /\ Count(orphaned, OrphanFinding(e, "never_subscribed", "info"))
                  = (IF DictGet(event_to_subscribers, e) = <<>> THEN 1 ELSE 0)
        /\ \A i \in 1..Len(orphaned) :
            \E e \in get_all_events :
                orphaned[i] \in {OrphanFinding(e, "never_published", "warning"),
                                 OrphanFinding(e, "never_subscribed", "info")}

\* C7 witness: one call has reported a never published event and a never
\* subscribed one and has passed over an event with both.
C7_Witness ==
    /\ op = "detect_orphaned_events" /\ status = "returned"
    /\ \E i, j \in 1..Len(orphaned) :
        orphaned[i].type = "never_published" /\ orphaned[j].type = "never_subscribed"
    /\ \E e \in get_all_events :
        \A i \in 1..Len(orphaned) : orphaned[i].event # e.name

IsolatedFinding(a) == [agent |-> a.name, namespace |-> a.namespace, severity |-> "info"]

EmptyIngestion ==
    /\ op' = "_analyze_file"
    /\ file'.pubs = <<>> /\ file'.subs = <<>>
    /\ <<op, file>> # <<op', file'>>

\* C9: an agent ingested with empty published and subscribed lists does not
\* become a key of subscriptions or publications, no detector operation adds
\* a key either, and an isolation finding always names a member of
\* get_all_agents().
C9_NoEmptyAgent ==
    [][/\ EmptyIngestion =>
            /\ DOMAIN subscriptions' = DOMAIN subscriptions
            /\ DOMAIN publications' = DOMAIN publications
       /\ op' # "_analyze_file" =>
            /\ DOMAIN subscriptions' = DOMAIN subscriptions
            /\ DOMAIN publications' = DOMAIN publications
       /\ \A i \in 1..Len(isolated') :
            \E a \in get_all_agents' : isolated'[i] = IsolatedFinding(a)]_vars

\* C9 witness: a file without publish or subscribe calls has been ingested
\* into a graph with agents, and its stem names no agent.
C9_Witness ==
    /\ op = "_analyze_file"
    /\ file.pubs = <<>> /\ file.subs = <<>>
    /\ get_all_agents # {}
    /\ \A a \in get_all_agents : a.name # file.agent_name

\* C10: get_all_events() is exactly the set of events in some agent's
\* published or subscribed list; a class that the namespace index declares
\* and no agent names is no member.
C10_AllEvents ==
    /\ get_all_events
          = UNION {Range(subscriptions[a]) : a \in DOMAIN subscriptions}
              \cup UNION {Range(publications[a]) : a \in DOMAIN publications}
    /\ \A c \in DOMAIN event_class_to_namespace :
          (\A a \in get_all_agents :
              \A e \in Range(DictGet(subscriptions, a)) \cup Range(DictGet(publications, a)) :
                  e.name # c)
          => \A e \in get_all_events : e.name # c

\* C10 witness: agents were ingested and a declared class is named by none.
C10_Witness ==
    /\ get_all_events # {}
    /\ \E c \in DOMAIN event_class_to_namespace :
        \A e \in get_all_events : e.name # c

(* ------------------------- ingestion, by name -------------------------- *)
\* Position in events_dir of the declaration of class c that the scan meets
\* last (0 when no namespace directory declares c).
LastDeclaration(c) ==
    LET at == {i \in 1..Len(events_dir) : events_dir[i][2] = c} \cup {0}
    IN  CHOOSE i \in at : \A j \in at : j <= i

\* The namespace directory of that declaration.
DeclaredNamespace(c) ==
    IF LastDeclaration(c) = 0 THEN "default" ELSE events_dir[LastDeclaration(c)][1]

\* A list of class names, each paired with its namespace.
Resolved(names) ==
    [i \in 1..Len(names) |-> NamespacedItem(names[i], DeclaredNamespace(names[i]))]

\* Number of positions of a list that hold x.
Occurrences(list, x) == Cardinality({i \in 1..Len(list) : list[i] = x})

\* The step is a call of _analyze_file that returns.
IngestionStep == op' = "_analyze_file" /\ status' = "returned"

\* The agents whose lists the step changes.
ChangedAgents ==
    {a \in get_all_agents' :
        \/ DictGet(publications', a) # DictGet(publications, a)
        \/ DictGet(subscriptions', a) # DictGet(subscriptions, a)}

\* C11 as claimed: a call of _analyze_file with an empty agent name fails.
C11_EmptyNameFails ==
    (op = "_analyze_file" /\ file.agent_name = "") => status = "raised"

\* C11 as amended: a call of _analyze_file with an empty agent name and a
\* readable file returns and records the agent under the empty name; a call
\* fails only when the file cannot be read, and a failing call leaves the four
\* mappings exactly as they were.
C11_AllOrNothing ==
    [][/\ (op' = "_analyze_file" /\ status' = "raised") => graph' = graph
       /\ (IngestionStep /\ file'.agent_name = ""
                /\ (file'.pubs # <<>> \/ file'.subs # <<>>)) =>
            \E a \in get_all_agents' :
                /\ a.name = ""
                /\ Len(DictGet(publications', a))
                      = Len(DictGet(publications, a)) + Len(file'.pubs)
                /\ Len(DictGet(subscriptions', a))
                      = Len(DictGet(subscriptions, a)) + Len(file'.subs)]_vars

\* C11 witness: an agent with the empty name is in the graph, and a later
\* call has failed on an unreadable file.
C11_Witness ==
    /\ op = "_analyze_file" /\ status = "raised"
    /\ \E a \in get_all_agents : a.name = ""

\* The namespaces of the published events of a file, in source order.
PublishedNamespaces(f) == [i \in 1..Len(f.pubs) |-> DeclaredNamespace(f.pubs[i])]

\* The non-default namespaces with the largest number of occurrences.
MostCommon(nss) ==
    {ns \in Range(nss) \ {"default"} :
        \A other \in Range(nss) \ {"default"} :
            Occurrences(nss, ns) >= Occurrences(nss, other)}

\* C15: the namespace _analyze_file gives an agent depends only on the
\* published events of its file: 'default' when none of them has a
\* non-default namespace, otherwise a namespace whose number of occurrences
\* among them, 'default' ignored, is maximal.
C15_NamespaceInference ==
    [][IngestionStep =>
        \A a \in ChangedAgents :
            /\ a.name = file'.agent_name
            /\ IF Range(PublishedNamespaces(file')) \subseteq {"default"}
               THEN a.namespace = "default"
               ELSE a.namespace \in MostCommon(PublishedNamespaces(file'))]_vars

\* C15 witness: a file has been ingested that publishes three events, two
\* of one namespace and one of another, and subscribes to an event.
C15_Witness ==
    /\ op = "_analyze_file" /\ status = "returned"
    /\ Len(file.pubs) = 3 /\ file.subs # <<>>
    /\ Cardinality(Range(PublishedNamespaces(file)) \ {"default"}) = 2
    /\ Cardinality(MostCommon(PublishedNamespaces(file))) = 1

\* First position at which ns has as many occurrences as it has in all.
ReachedAt(nss, ns) ==
    CHOOSE i \in 1..Len(nss) :
        /\ Occurrences(SubSeq(nss, 1, i), ns) = Occurrences(nss, ns)
        /\ \A j \in 1..(i - 1) : Occurrences(SubSeq(nss, 1, j), ns) < Occurrences(nss, ns)

\* First position that holds ns.
FirstAt(nss, ns) ==
    CHOOSE i \in 1..Len(nss) : nss[i] = ns /\ \A j \in 1..(i - 1) : nss[j] # ns

\* C16 as claimed: among the non-default namespaces that share the maximal
\* count, the agent gets the one that reached that count first in the
\* published-event sequence.
C16_ReachedFirst ==
    [][IngestionStep =>
        \A a \in ChangedAgents :
            \A ns \in MostCommon(PublishedNamespaces(file')) :
                ReachedAt(PublishedNamespaces(file'), a.namespace)
                    <= ReachedAt(PublishedNamespaces(file'), ns)]_vars

\* C16 as amended: among the non-default namespaces that share the maximal
\* count, the agent gets the one that occurs first in the published-event
\* sequence.
C16_FirstSeen ==
    [][IngestionStep =>
        \A a \in ChangedAgents :
            \A ns \in MostCommon(PublishedNamespaces(file')) :
                /\ a.namespace \in MostCommon(PublishedNamespaces(file'))
                /\ FirstAt(PublishedNamespaces(file'), a.namespace)
                      <= FirstAt(PublishedNamespaces(file'), ns)]_vars

\* C16 witness: a file has been ingested whose published events give two
\* namespaces the maximal count, and the one that occurs first reaches that
\* count last.
C16_Witness ==
    /\ op = "_analyze_file" /\ status = "returned"
    /\ \E m, r \in MostCommon(PublishedNamespaces(file)) :
        /\ FirstAt(PublishedNamespaces(file), m) < FirstAt(PublishedNamespaces(file), r)
        /\ ReachedAt(PublishedNamespaces(file), r) < ReachedAt(PublishedNamespaces(file), m)
        /\ \E a \in get_all_agents : a.name = file.agent_name /\ a.namespace = m

\* C17: a class name that no namespace directory declares resolves to
\* 'default' and its ingestion returns, and a class name declared under
\* several namespaces resolves, in every ingestion, to the namespace of the
\* declaration the scan met last.
C17_Resolution ==
    /\ \A c \in NamedClasses \cup DOMAIN event_class_to_namespace :
          EventNamespace(event_class_to_namespace, c) = DeclaredNamespace(c)
    /\ \A e \in MentionedEvents : e.namespace = DeclaredNamespace(e.name)
    /\ (op = "_analyze_file" /\ (file.pubs # <<>> \/ file.subs # <<>>)) => status = "returned"

\* C17 witness: the graph holds an event whose class two namespace
\* directories declare and an event whose class none declares.
C17_Witness ==
    /\ \E e \in get_all_events :
        \E i, j \in 1..Len(events_dir) :
            /\ i < j
            /\ events_dir[i][2] = e.name /\ events_dir[j][2] = e.name
            /\ events_dir[i][1] # events_dir[j][1]
    /\ \E e \in get_all_events : LastDeclaration(e.name) = 0

\* The list new is the list old followed by n times a.
IsAppended(old, new, a, n) ==
    /\ Len(new) = Len(old) + n
    /\ SubSeq(new, 1, Len(old)) = old
    /\ \A i \in (Len(old) + 1)..Len(new) : new[i] = a

Edge(a, b) ==
    /\ a # b
    /\ \E e \in Range(DictGet(publications, a)) : e \in Range(DictGet(subscriptions, b))

RECURSIVE Reach(_)
\* The agents reachable from S along edges.
Reach(S) ==
    LET T == S \cup {b \in get_all_agents : \E a \in S : Edge(a, b)}
    IN  IF T = S THEN S ELSE Reach(T)

RECURSIVE WeakReach(_)
\* The agents reachable from S along edges taken in either direction.
WeakReach(S) ==
    LET T == S \cup {b \in get_all_agents : \E a \in S : Edge(a, b) \/ Edge(b, a)}
    IN  IF T = S THEN S ELSE WeakReach(T)

\* The derived agent graph has a directed cycle.
HasDirectedCycle ==
    \E a \in get_all_agents : a \in Reach({b \in get_all_agents : Edge(a, b)})

\* The weakly connected component of an agent.
Component(a) == WeakReach({a})

\* The agents of a cycle finding.
Members(finding) ==
    {NamespacedItem(finding.path[i].agent, finding.path[i].namespace) :
        i \in 1..Len(finding.path)}

\* The call in progress or just over runs the cycle search.
InSearch == op \in {"detect_cycles", "detect_all", "get_anomaly_summary"}

\* C2: anomaly detection never fails: no detector operation raises, for any
\* ingested graph and any iteration order, and on the empty graph every
\* list is empty and every count is 0.
C2_NeverFails ==
    /\ status # "raised"
    /\ (status = "returned" /\ get_all_agents = {} /\ get_all_events = {}) =>
        /\ orphaned = <<>> /\ cycles = <<>> /\ isolated = <<>>
        /\ op = "get_anomaly_summary" => counts = Summary(<<>>, <<>>, <<>>)

\* C3: cycle completeness: when the derived agent graph has a directed
\* cycle, detect_cycles returns at least one finding, and every finding has
\* severity 'warning'.
C3_CycleComplete ==
    /\ (op = "detect_cycles" /\ status # "running" /\ HasDirectedCycle) =>
            (status = "returned" /\ Len(cycles) >= 1)
    /\ \A i \in 1..Len(cycles) : cycles[i].severity = "warning"

\* What holds of C3 on the runs in which detect_cycles returns.
C3_CompleteWhenReturned ==
    /\ (op = "detect_cycles" /\ status = "returned" /\ HasDirectedCycle) => Len(cycles) >= 1
    /\ \A i \in 1..Len(cycles) : cycles[i].severity = "warning"

\* C4: cycle soundness: when the derived agent graph has no directed cycle,
\* detect_cycles reports nothing and returns the empty list.
C4_CycleSound ==
    (op = "detect_cycles" /\ ~HasDirectedCycle) => (cycles = <<>> /\ status # "raised")

\* C4 witness: detect_cycles has returned on a linear flow A -> B -> C.
C4_Witness ==
    /\ op = "detect_cycles" /\ status = "returned"
    /\ ~HasDirectedCycle
    /\ \E a, b, c \in get_all_agents : Edge(a, b) /\ Edge(b, c)

\* C5 as claimed: no two cycle findings lie in the same weakly connected
\* component of the derived agent graph.
C5_OnePerComponent ==
    InSearch =>
        \A i, j \in 1..Len(cycles) :
            i # j =>
                \A a \in Members(cycles[i]), b \in Members(cycles[j]) :
                    Component(a) # Component(b)

\* C5 as amended: at most one cycle finding per agent the root loop has
\* taken, and no agent is a member of two findings.
C5_OnePerRoot ==
    InSearch =>
        /\ Len(cycles) <= Cardinality(get_all_agents \ all_agents)
        /\ \A i, j \in 1..Len(cycles) :
            i # j => Members(cycles[i]) \cap Members(cycles[j]) = {}

\* C5 witness: the search has returned two findings that lie in one weakly
\* connected component.
C5_Witness ==
    /\ op = "detect_cycles" /\ status = "returned"
    /\ Len(cycles) = 2
    /\ \E a \in Members(cycles[1]) : Members(cycles[2]) \subseteq Component(a)

\* Every weakly connected component is a simple directed cycle: every agent
\* has exactly one successor and exactly one predecessor.
SimpleCyclesOnly ==
    /\ get_all_agents # {}
    /\ \A a \in get_all_agents :
        /\ Cardinality({b \in get_all_agents : Edge(a, b)}) = 1
        /\ Cardinality({b \in get_all_agents : Edge(b, a)}) = 1

Components == {Component(a) : a \in get_all_agents}

\* C6: when the derived agent graph consists of k pairwise disconnected
\* simple directed cycles, detect_cycles returns exactly k findings, one per
\* component.
C6_OnePerSimpleCycle ==
    (op = "detect_cycles" /\ SimpleCyclesOnly) =>
        /\ status # "raised"
        /\ status = "returned" =>
            /\ Len(cycles) = Cardinality(Components)
            /\ \A c \in Components : \E i \in 1..Len(cycles) : Members(cycles[i]) = c

\* C6 witness: detect_cycles has returned on two disjoint cycles A <-> B and
\* C <-> D.
C6_Witness ==
    /\ op = "detect_cycles" /\ status = "returned"
    /\ SimpleCyclesOnly
    /\ Cardinality(Components) = 2

(* ------------------------ queries and reports -------------------------- *)
\* C12: the detector and the graph queries are read-only: every call of
\* detect_orphaned_events, detect_cycles, detect_isolated_agents, detect_all,
\* get_anomaly_summary, get_all_events, get_all_agents, get_all_namespaces
\* and get_event_chains, at each of its steps, leaves subscriptions,
\* publications, event_to_subscribers and event_to_publishers as they were,
\* key sets included.
C12_ReadOnly ==
    [][op' # "_analyze_file" =>
        /\ graph' = graph
        /\ DOMAIN subscriptions' = DOMAIN subscriptions
        /\ DOMAIN publications' = DOMAIN publications
        /\ DOMAIN event_to_subscribers' = DOMAIN event_to_subscribers
        /\ DOMAIN event_to_publishers' = DOMAIN event_to_publishers]_vars

\* C12 witness: get_event_chains has looked up the subscribers of an event
\* that has none, in a graph with an agent that publishes nothing.
C12_Witness ==
    /\ op = "get_event_chains" /\ status = "returned"
    /\ result.chains # <<>>
    /\ \E a \in get_all_agents : a \notin DOMAIN publications

\* C14: the counts get_anomaly_summary returns are the lengths of the three
\* lists of its detect_all call, total_anomalies is their sum, and each
\* orphan finding counts: the orphan count is the number of events without
\* publisher plus the number of events without subscriber.
C14_SummaryCounts ==
    (op = "get_anomaly_summary" /\ status = "returned") =>
        /\ counts.orphaned_events_count = Len(orphaned)
        /\ counts.cycles_count = Len(cycles)
        /\ counts.isolated_agents_count = Len(isolated)
        /\ counts.total_anomalies
              = counts.orphaned_events_count + counts.cycles_count
                    + counts.isolated_agents_count
        /\ counts.orphaned_events_count
              = Cardinality({e \in get_all_events : DictGet(event_to_publishers, e) = <<>>})
                + Cardinality({e \in get_all_events : DictGet(event_to_subscribers, e) = <<>>})

\* C14 witness: get_anomaly_summary has returned on a graph with a cycle and
\* two orphan findings.
C14_Witness ==
    /\ op = "get_anomaly_summary" /\ status = "returned"
    /\ counts.cycles_count = 1
    /\ counts.orphaned_events_count = 2
    /\ counts.total_anomalies = 3

\* An event with a publisher that is no key of event_to_subscribers.
IsEntryPoint(e) == e \in DOMAIN event_to_publishers /\ e \notin DOMAIN event_to_subscribers

\* C19: get_event_chains returns exactly one chain per entry-point event
\* (a key of event_to_publishers that is no key of event_to_subscribers);
\* each chain starts with its entry point and none starts with another
\* event.
C19_OneChainPerEntry ==
    (op = "get_event_chains" /\ status = "returned") =>
        /\ \A e \in get_all_events :
            Cardinality({i \in 1..Len(result.chains) : result.chains[i][1] = e})
                = (IF IsEntryPoint(e) THEN 1 ELSE 0)
        /\ \A i \in 1..Len(result.chains) :
            /\ result.chains[i] # <<>>
            /\ result.chains[i][1] \in get_all_events

\* C19 witness: get_event_chains has returned two chains on a graph that
\* also has a published event with a subscriber.
C19_Witness ==
    /\ op = "get_event_chains" /\ status = "returned"
    /\ Len(result.chains) = 2
    /\ \E e \in DOMAIN event_to_publishers : e \in DOMAIN event_to_subscribers

\* C20: in the result of get_event_chains every event is in at most one
\* chain and at most once in it.
C20_EventOnce ==
    (op = "get_event_chains" /\ status = "returned") =>
        \A i, j \in 1..Len(result.chains) :
            \A k \in 1..Len(result.chains[i]), l \in 1..Len(result.chains[j]) :
                result.chains[i][k] = result.chains[j][l] => (i = j /\ k = l)

\* C20 witness: get_event_chains has returned three chains.
C20_Witness ==
    /\ op = "get_event_chains" /\ status = "returned"
    /\ Len(result.chains) = 3

\* The report of the call just completed is the one of the call before.
SameReport(before) ==
    /\ status = before.status
    /\ status = "returned" =>
        /\ orphaned = before.orphaned
        /\ cycles = before.cycles
        /\ isolated = before.isolated
        /\ op = before.op => counts = before.counts

\* C13: detection is repeatable: on an unchanged graph a second call of
\* detect_all or get_anomaly_summary, whatever other checks ran in between,
\* gives the report of the first: the same findings in the same order and
\* the same cycles (and the same exception when the first raised).
C13_SameReportTwice ==
    (op \in {"detect_all", "get_anomaly_summary"} /\ status # "running"
        /\ previous # <<>>) => SameReport(previous[1])

\* C13 witness: detect_all has returned, on a graph that get_anomaly_summary
\* reported on before, an orphan finding and a cycle that the root loop
\* entered at agent B.
C13_Witness ==
    /\ op = "detect_all" /\ status = "returned"
    /\ previous # <<>>
    /\ previous[1].op = "get_anomaly_summary"
    /\ Len(cycles) = 1 /\ Len(orphaned) >= 1
    /\ cycles[1].cycle[1] = "B"

(* ------------------------- the cycle findings -------------------------- *)
\* The agent of hop j of a cycle finding.
HopAgent(finding, j) ==
    NamespacedItem(finding.path[j].agent, finding.path[j].namespace)

\* The names of the events of publications[current], in their order, that
\* subscriptions[next_agent] holds.
SharedEvents(current, next_agent) ==
    LET hits == SelectSeq(DictGet(publications, current),
                          LAMBDA event : event \in Range(DictGet(subscriptions, next_agent)))
    IN  [i \in 1..Len(hits) |-> hits[i].name]

C25_EveryAgentOnce ==
    op = "detect_cycles" =>
        /\ visited \subseteq get_all_agents
        /\ Range(path) \subseteq visited
        /\ \A i, j \in 1..Len(path) : i # j => path[i] # path[j]
        /\ status # "running" => visited = get_all_agents

\* What holds of C25 on the runs in which detect_cycles returns.
C25_OnceWhenReturned ==
    op = "detect_cycles" =>
        /\ visited \subseteq get_all_agents
        /\ Range(path) \subseteq visited
        /\ \A i, j \in 1..Len(path) : i # j => path[i] # path[j]
        /\ status = "returned" => visited = get_all_agents

\* C26: recursion-stack consistency in detect_cycles: while dfs calls are
\* active the recursion stack holds exactly the agents on the current DFS
\* path, and it is empty whenever the root loop still has a DFS to start
\* from a new root, also after an earlier root reported a cycle.
C26_StackIsPath ==
    (InSearch /\ Searching) =>
        /\ frames # <<>> => rec_stack = Range(path)
        /\ (frames = <<>> /\ all_agents \ visited # {}) => rec_stack = {}

(* ----------------------- entries of the mappings ----------------------- *)
\* No key of the mapping d maps to the empty sequence.
NoEmptyEntry(d) == \A k \in DOMAIN d : d[k] # <<>>

\* C28: in every graph produced only by agent ingestion, no key of the four
\* mappings maps to an empty sequence: every agent has a publication or a
\* subscription and every event a publisher or a subscriber; consequently
\* detect_isolated_agents returns the empty list and no event receives both
\* a never_published and a never_subscribed finding.
C28_NoEmptyEntry ==
    /\ NoEmptyEntry(subscriptions) /\ NoEmptyEntry(publications)
    /\ NoEmptyEntry(event_to_subscribers) /\ NoEmptyEntry(event_to_publishers)
    /\ \A a \in get_all_agents : ~IsIsolated(a)
    /\ \A e \in get_all_events :
        DictGet(event_to_publishers, e) # <<>> \/ DictGet(event_to_subscribers, e) # <<>>
    /\ op = "detect_isolated_agents" => isolated = <<>>
    /\ op = "detect_orphaned_events" =>
        \A e \in get_all_events :
            Count(orphaned, OrphanFinding(e, "never_published", "warning"))
              + Count(orphaned, OrphanFinding(e, "never_subscribed", "info")) <= 1

\* C28 witness: detect_isolated_agents has returned over a graph with an
\* agent that only publishes, an event that nobody subscribes to and an
\* event that nobody publishes.
C28_Witness ==
    /\ op = "detect_isolated_agents" /\ status = "returned"
    /\ \E a \in get_all_agents : a \notin DOMAIN subscriptions
    /\ \E e \in get_all_events : e \notin DOMAIN event_to_subscribers
    /\ \E e \in get_all_events : e \notin DOMAIN event_to_publishers

(* --------------------------- the event chains -------------------------- *)
\* The events with a publisher and without a subscriber.
PublishedNeverSubscribed ==
    {e \in get_all_events :
        /\ \E a \in DOMAIN publications : e \in Range(publications[a])
        /\ \A a \in DOMAIN subscriptions : e \notin Range(subscriptions[a])}

\* C29: every chain returned by get_event_chains has length exactly 1: the
\* result is precisely one singleton chain per published-but-never-
\* subscribed event, and no event that has a subscriber is in any chain.
C29_SingletonChains ==
    (op = "get_event_chains" /\ status = "returned") =>
        /\ \A i \in 1..Len(result.chains) : Len(result.chains[i]) = 1
        /\ Len(result.chains) = Cardinality(PublishedNeverSubscribed)
        /\ \A e \in PublishedNeverSubscribed :
            \E i \in 1..Len(result.chains) : result.chains[i] = <<e>>
        /\ \A i \in 1..Len(result.chains) :
            \A k \in 1..Len(result.chains[i]) :
                \A a \in DOMAIN subscriptions :
                    result.chains[i][k] \notin Range(subscriptions[a])

\* C29 witness: get_event_chains has returned on a graph in which the
\* publisher of an entry point subscribes to an event and an agent that
\* subscribes to an event publishes another.
C29_Witness ==
    /\ op = "get_event_chains" /\ status = "returned"
    /\ result.chains # <<>>
    /\ \E a \in DOMAIN publications \cap DOMAIN subscriptions :
        \E e \in PublishedNeverSubscribed : e \in Range(publications[a])
    /\ \E e \in DOMAIN event_to_subscribers \cap DOMAIN event_to_publishers :
        \E a \in Range(event_to_subscribers[e]) : a \in DOMAIN publications

(* ---------------------- transpose with multiplicity -------------------- *)
\* C30: after any sequence of ingestions, for every agent a and event e the
\* number of occurrences of e in subscriptions[a] equals the number of
\* occurrences of a in event_to_subscribers[e] (same for publications and
\* event_to_publishers), so the total lengths of the forward sequences equal
\* the total lengths of the inverse sequences.
C30_TransposeWithMultiplicity ==
    /\ \A a \in get_all_agents, e \in get_all_events :
        /\ Occurrences(DictGet(subscriptions, a), e)
              = Occurrences(DictGet(event_to_subscribers, e), a)
        /\ Occurrences(DictGet(publications, a), e)
              = Occurrences(DictGet(event_to_publishers, e), a)
    /\ TotalLen(subscriptions, DOMAIN subscriptions)
          = TotalLen(event_to_subscribers, DOMAIN event_to_subscribers)
    /\ TotalLen(publications, DOMAIN publications)
          = TotalLen(event_to_publishers, DOMAIN event_to_publishers)

\* C30 witness: an agent subscribes twice to one event and publishes
\* another event twice, through one file or through two files of one stem.
C30_Witness ==
    \E a \in get_all_agents, e, f \in get_all_events :
        /\ e # f
        /\ Occurrences(DictGet(subscriptions, a), e) = 2
        /\ Occurrences(DictGet(publications, a), f) = 2

(* -------------------------- concurrent readers ------------------------- *)
\* Some reader has called a detector or a query.
ReadersStarted ==
    \/ op \notin {"__init__", "_analyze_file"}
    \/ parked.op \notin {"__init__", "_analyze_file"}

\* The two readers have completed the same operation.
BothCompleted ==
    /\ op \notin {"__init__", "_analyze_file"}
    /\ op = parked.op
    /\ status # "running" /\ parked.status # "running"

\* The two readers got the same outcome: the same exception or the same
\* returned values.
SameOutcome ==
    /\ status = parked.status
    /\ status = "returned" =>
        /\ cycles = parked.cycles
        /\ orphaned = parked.orphaned
        /\ isolated = parked.isolated
        /\ counts = parked.counts
        /\ result = parked.result

\* C21: after ingestion has completed, any interleaving of detector and
\* query operations of concurrent readers leaves the graph unchanged, and
\* each reader gets the result of a run alone: two readers that completed
\* the same operation, however their steps interleaved, hold the same
\* outcome.
C21_ReadersIndependent ==
    [][/\ ReadersStarted' => graph' = graph
       /\ BothCompleted' => SameOutcome']_vars

\* C21 witness: one reader has returned a cycle from detect_cycles while the
\* other is inside its own detect_cycles call, with dfs calls active and a
\* visited set of its own.
C21_Witness ==
    /\ parked.op = "detect_cycles" /\ parked.status = "returned"
    /\ Len(parked.cycles) >= 1
    /\ op = "detect_cycles" /\ status = "running"
    /\ frames # <<>>
    /\ visited # parked.visited
    /\ cycles = <<>>

(* --------------------------- EventFlowScanner -------------------------- *)
\* The graph types the running or last scan_once call has processed.
ProcessedGraphTypes == {scanner.results[i][1] : i \in 1..Len(scanner.results)}

\* C22: scan_once posts a payload to the API for the graph types it
\* processes whenever the analyzer holds events and agents, and the
\* payload's stats.events is the number of events of get_all_events() and
\* its stats.agents the number of distinct agents.
C22_PayloadPosted ==
    /\ (get_all_events # {} /\ get_all_agents # {}) =>
        \A graph_type \in ProcessedGraphTypes :
            \E k \in 1..Len(scanner.posted) : scanner.posted[k].graph_type = graph_type
    /\ \A k \in 1..Len(scanner.posted) :
        /\ scanner.posted[k].stats.events = Cardinality(get_all_events)
        /\ scanner.posted[k].stats.agents = Cardinality(get_all_agents)

\* What holds of C22: every payload that scan_once posts carries the counts
\* of the events and of the agents of its analyzer.
C22_StatsWhenPosted ==
    \A k \in 1..Len(scanner.posted) :
        /\ scanner.posted[k].stats.events = Cardinality(get_all_events)
        /\ scanner.posted[k].stats.agents = Cardinality(get_all_agents)

\* C23: every payload pushed by scan_once holds the keys graph_type,
\* dot_content, stats and namespaces and an 'anomalies' key with a 'summary'
\* (the four counts) and 'details' (the three lists).
C23_PayloadHasAnomalies ==
    \A k \in 1..Len(scanner.posted) :
        LET payload == scanner.posted[k]
        IN  /\ {"graph_type", "dot_content", "stats", "namespaces", "anomalies"}
                    \subseteq DOMAIN payload
            /\ {"summary", "details"} \subseteq DOMAIN payload.anomalies
            /\ {"orphaned_events_count", "cycles_count", "isolated_agents_count",
                "total_anomalies"} \subseteq DOMAIN payload.anomalies.summary
            /\ {"orphaned_events", "cycles", "isolated_agents"}
                    \subseteq DOMAIN payload.anomalies.details

\* The positions of the log at which the Postman collection was generated
\* or its writing failed.
Attempts ==
    {i \in 1..Len(scanner.log) : scanner.log[i] \in WriteOutcomes}

\* C27: across any sequence of scan_once calls on one EventFlowScanner the
\* Postman collection is generated at most once, only directly after a push
\* that returned HTTP 201, and never when postman_dir is unset; once the
\* generation has been attempted, even if writing the file failed, it is
\* never attempted again.
C27_GeneratedOnce ==
    [][/\ Cardinality(Attempts') <= 1
       /\ \A i \in Attempts' : i > 1 /\ scanner'.log[i - 1] = "201"
       /\ ~scanner'.postman_dir => Attempts' = {}
       /\ Attempts # {} => Attempts' = Attempts]_vars

\* C27 witness: a push failed, the next one returned 201 and the writing of
\* the collection failed, and a later scan_once call pushed with 201 again.
C27_Witness ==
    /\ scanner.postman_dir
    /\ scanner.calls >= 2
    /\ \E i \in Attempts :
        /\ scanner.log[i] = "IOError"
        /\ i > 2 /\ scanner.log[i - 2] # "201"
        /\ Len(scanner.log) > i
        /\ scanner.log[Len(scanner.log)] = "201"
====
